---- MODULE Spec2Model ----
(***************************************************************************)
(* Model of awpa/patcomp.py: PatternCompiler, the compiler from a pattern  *)
(* syntax tree (built by the pgen2 driver with pattern_convert) to a tree  *)
(* of pytree.*Pattern objects.                                             *)
(*                                                                         *)
(* Text is a tuple of one-character strings, so that str.isupper,          *)
(* str.startswith, int() and literals.evalString are computed from the     *)
(* characters.  A value that may be Python's None is a tuple of at most    *)
(* one element: None is <<>> and the value v is <<v>>, so that the empty   *)
(* text and the empty list are not None.  In the field type None is the    *)
(* string "None".  An exception in flight is a record of class "Raise";    *)
(* every caller hands it on unchanged.                                     *)
(***************************************************************************)
EXTENDS Integers, Sequences, FiniteSets, TLC

VARIABLES int_max_str_digits, driver, tree, pc, call, result, pattern

vars == <<int_max_str_digits, driver, tree, pc, call, result, pattern>>

(***************************************************************************)
(* Bounds of the explored inputs.                                          *)
(***************************************************************************)
MaxCount == 2
MaxDepth == 2
MaxAlts == 2
MaxUnits == 2

(***************************************************************************)
(* Text.                                                                   *)
(***************************************************************************)
\* The alphabet is ASCII and a few characters standing for the Unicode
\* classes str.isupper, str.isalpha and int tell apart.
Upper == {"A", "B", "C", "D", "E", "F", "G", "H", "I", "J", "K", "L", "M",
          "N", "O", "P", "Q", "R", "S", "T", "U", "V", "W", "X", "Y", "Z",
          "É", "Σ"}
Lower == {"a", "b", "c", "d", "e", "f", "g", "h", "i", "j", "k", "l", "m",
          "n", "o", "p", "q", "r", "s", "t", "u", "v", "w", "x", "y", "z",
          "é", "ß", "λ"}
\* cased letters that are neither uppercase nor lowercase
Title == {"ǅ"}
\* letters without case
Uncased == {"א"}
Digit == <<"0", "1", "2", "3", "4", "5", "6", "7", "8", "9">>
\* decimal digits outside ASCII
OtherDigit == ("۱" :> 1) @@ ("۲" :> 2)
\* the characters int() skips around a number: space, \t, \n, \r, \f,
\* vertical tab (U+000B), next line (U+0085), no-break space (U+00A0) and
\* ogham space mark (U+1680)
Whitespace == {" ", "\t", "\n", "\r", "\f", "", "", " ", " "}

\* the printable ASCII characters, in the order of their code points 32..126;
\* the grave accent, which cannot be written in a string, is named by its
\* code point
Ascii ==
    <<" ", "!", "\"", "#", "$", "%", "&", "'", "(", ")", "*", "+", ",",
      "-", ".", "/", "0", "1", "2", "3", "4", "5", "6", "7", "8", "9", ":",
      ";", "<", "=", ">", "?", "@", "A", "B", "C", "D", "E", "F", "G", "H",
      "I", "J", "K", "L", "M", "N", "O", "P", "Q", "R", "S", "T", "U", "V",
      "W", "X", "Y", "Z", "[", "\\", "]", "^", "_", "U+96", "a", "b",
      "c",
      "d", "e", "f", "g", "h", "i", "j", "k", "l", "m", "n", "o", "p", "q",
      "r", "s", "t", "u", "v", "w", "x", "y", "z", "{", "|", "}", "~">>

\* the other characters of the alphabet that have a code point below 512
Latin ==
    (9 :> "\t") @@ (10 :> "\n") @@ (11 :> "") @@ (12 :> "\f")
    @@ (13 :> "\r") @@ (133 :> "") @@ (160 :> " ") @@ (201 :> "É")
    @@ (223 :> "ß") @@ (233 :> "é") @@ (453 :> "ǅ")

\* chr(i) for 0 <= i < 512; a character the alphabet has no literal for is
\* named by its code point
chr(i) ==
    IF i \in 32..126 THEN Ascii[i - 31]
    ELSE IF i \in DOMAIN Latin THEN Latin[i]
    ELSE "U+" \o ToString(i)

\* the code points below 512 of the letters chr names by their code point
OtherAlpha ==
    ({170, 181, 186} \cup (192..214) \cup (216..246) \cup (248..511))
    \ DOMAIN Latin

None == <<>>
Some(v) == <<v>>

\* str.isupper(): at least one uppercase character and no other cased one
isupper(s) ==
    /\ \E i \in 1..Len(s) : s[i] \in Upper
    /\ \A i \in 1..Len(s) : s[i] \notin Lower \cup Title

\* str.isalpha() of one character
isalpha(c) ==
    c \in Upper \cup Lower \cup Title \cup Uncased \cup {chr(i) : i \in OtherAlpha}

\* str.startswith("_")
startswith_underscore(s) == Len(s) >= 1 /\ s[1] = "_"

IsDigit(c) ==
    c \in {"0", "1", "2", "3", "4", "5", "6", "7", "8", "9"} \cup DOMAIN OtherDigit

DigitValue(c) ==
    IF c \in DOMAIN OtherDigit THEN OtherDigit[c]
    ELSE CHOOSE d \in 0..9 : Digit[d + 1] = c

\* a value that is not a pattern, handed back by a helper that may also raise
Value(v) == [cls |-> "Value", v |-> v]

\* an integer of magnitude above 2^31 - 1, kept as its sign and its digits
\* without leading zeros
Big(neg, digits) == [cls |-> "Big", neg |-> neg, digits |-> digits]

ValueError == [cls |-> "Raise", exc |-> "ValueError"]

\* the least element of a non-empty set of integers
Least(S) == CHOOSE i \in S : \A j \in S : i <= j

\* the greatest element of a non-empty set of integers
Greatest(S) == 0 - Least({0 - i : i \in S})

\* the part of s between the positions in K, all of it gone when K is empty
Between(s, K) == IF K = {} THEN <<>> ELSE SubSeq(s, Least(K), Greatest(K))

\* s without the whitespace at its ends
strip(s) == Between(s, {i \in 1..Len(s) : s[i] \notin Whitespace})

\* s from the first position in K, <<>> when K is empty
FromLeast(s, K) == IF K = {} THEN <<>> ELSE SubSeq(s, Least(K), Len(s))

\* digits without their leading zeros; <<>> when all are zero
StripZeros(ds) == FromLeast(ds, {i \in 1..Len(ds) : DigitValue(ds[i]) # 0})

RECURSIVE Magnitude(_, _)
\* the number the digits ds, leading zeros gone, continue from acc;
\* -1 once it is above 2^31 - 1
Magnitude(ds, acc) ==
    IF ds = <<>> THEN acc
    ELSE IF Len(ds) > 10 THEN -1
    ELSE LET d == DigitValue(ds[1])
         IN  IF acc > (2147483647 - d) \div 10 THEN -1
             ELSE Magnitude(Tail(ds), 10 * acc + d)

\* sys.get_int_max_str_digits() of the interpreter: 4300 unless configured, 0
\* when the limit is off or the interpreter has none, otherwise any number
\* from 640, the least limit that can be set, of which 640 is explored
IntMaxStrDigits == {0, 640, 4300}

\* the integer of the digits ds, of magnitude m (-1: above 2^31 - 1)
FromDigits(neg, ds, m) ==
    IF m = -1
    THEN Big(neg, [i \in 1..Len(ds) |-> Digit[DigitValue(ds[i]) + 1]])
    ELSE Value(IF neg THEN 0 - m ELSE m)

\* digits with single underscores between them
WellFormed(body) ==
    /\ Len(body) >= 1
    /\ IsDigit(body[1]) /\ IsDigit(body[Len(body)])
    /\ \A i \in 1..Len(body) : IsDigit(body[i]) \/ body[i] = "_"
    /\ \A i \in 1..(Len(body) - 1) : ~(body[i] = "_" /\ body[i + 1] = "_")

\* more digits, leading zeros included, than the interpreter converts
ExceedsLimit(ds) == int_max_str_digits > 0 /\ Len(ds) > int_max_str_digits

Normal(neg, ds) == FromDigits(neg, ds, Magnitude(ds, 0))

Unsigned(neg, body, ds) ==
    IF WellFormed(body) /\ ~ExceedsLimit(ds) THEN Normal(neg, StripZeros(ds))
    ELSE ValueError

Signed(neg, body) == Unsigned(neg, body, SelectSeq(body, IsDigit))

Stripped(t, signed) ==
    Signed(signed /\ t[1] = "-", IF signed THEN Tail(t) ELSE t)

Trimmed(t) == Stripped(t, t # <<>> /\ t[1] \in {"+", "-"})

\* int(text), base 10: surrounding whitespace, an optional sign, digits with
\* single underscores between them, no more of them than the interpreter's
\* limit; anything else is a ValueError
int(s) == Trimmed(strip(s))

RECURSIVE Decimal(_)
\* the decimal text of a natural number, as the tokenizer would have read it
Decimal(n) ==
    IF n < 10 THEN <<Digit[n + 1]>>
    ELSE Decimal(n \div 10) \o <<Digit[(n % 10) + 1]>>

(***************************************************************************)
(* The pattern syntax tree: pytree.Node and pytree.Leaf as built by        *)
(* pattern_convert.                                                        *)
(***************************************************************************)
Symbols == {"Matcher", "Alternatives", "Alternative", "NegatedUnit", "Unit",
            "Repeater", "Details"}

\* a Leaf has a value and no children; a Node has children and no attribute
\* value
Leaf(type, value) == [type |-> type, value |-> value, children |-> <<>>]
Node(type, children) == [type |-> type, children |-> children]

\* the types of Nodes are the symbols, the types of Leaves the tokens
IsNode(n) == n.type \in Symbols

\* pattern_convert: a Node when there are children or the type is a symbol
pattern_convert(type, value, children) ==
    IF children # <<>> \/ type \in Symbols
    THEN Node(type, children)
    ELSE Leaf(type, value)

NoNode == [type |-> "None", children |-> <<>>]

(***************************************************************************)
(* pytree patterns.  The module pytree is imported by patcomp.py and is    *)
(* not part of it; its pattern classes (LeafPattern, NodePattern,          *)
(* WildcardPattern, NegatedPattern) are the four matcher nodes of the      *)
(* specification.  A WildcardPattern takes min and max as they are given:  *)
(* min > max is passed through unchecked.  HUGE is the distinguished       *)
(* infinite bound, above every integer.  The fields name and content hold  *)
(* None or Some(v); the content of a NegatedPattern is the pattern the     *)
(* compiler passes; min and max hold an integer (Value or Big) or HUGE.    *)
(* The field optimized records that the object is the return value of an   *)
(* optimize() call.                                                        *)
(***************************************************************************)
HUGE == [cls |-> "HUGE"]

Raise(exc) == [cls |-> "Raise", exc |-> exc]
IsRaise(p) == p.cls = "Raise"

PatternSyntaxError == Raise("PatternSyntaxError")
AssertionError == Raise("AssertionError")
UnboundLocalError == Raise("UnboundLocalError")
IndexError == Raise("IndexError")
AttributeError == Raise("AttributeError")

LeafPattern(type, content) ==
    [cls |-> "LeafPattern", type |-> type, content |-> content,
     name |-> None, optimized |-> FALSE]

NodePattern(type, content) ==
    [cls |-> "NodePattern", type |-> type, content |-> content,
     name |-> None,
     wildcards |-> /\ content # None
                   /\ \E i \in 1..Len(content[1]) :
                         content[1][i].cls = "WildcardPattern",
     optimized |-> FALSE]

\* the constructor takes any min and max; it rejects an empty list of
\* alternatives and an empty alternative
WildcardPattern(content, min, max, name) ==
    IF /\ content # None
       /\ \/ Len(content[1]) = 0
          \/ \E i \in 1..Len(content[1]) : Len(content[1][i]) = 0
    THEN AssertionError
    ELSE [cls |-> "WildcardPattern", type |-> "None", content |-> content,
          min |-> min, max |-> max, name |-> name, optimized |-> FALSE]

NegatedPattern(content) ==
    [cls |-> "NegatedPattern", type |-> "None", content |-> content,
     name |-> None, optimized |-> FALSE]

Returned(p) == IF IsRaise(p) THEN p ELSE [p EXCEPT !.optimized = TRUE]

\* min or max is the integer 1
IsOne(n) == n.cls = "Value" /\ n.v = 1

\* min or max is the integer 0
IsZero(n) == n.cls = "Value" /\ n.v = 0

\* n < 0
Negative(n) == IF n.cls = "Value" THEN n.v < 0 ELSE n.cls = "Big" /\ n.neg

\* n <= 1
LeOne(n) == IF n.cls = "Value" THEN n.v <= 1 ELSE n.cls = "Big" /\ n.neg

\* the values of the digits ds, the last digit first
Reversed(ds) == [i \in 1..Len(ds) |-> DigitValue(ds[Len(ds) + 1 - i])]

\* the decimal digits of the magnitude of an integer, the last digit first
Digits(n) ==
    Reversed(IF n.cls = "Big" THEN n.digits
             ELSE Decimal(IF n.v < 0 THEN 0 - n.v ELSE n.v))

RECURSIVE ColumnSum(_, _, _, _)
\* the sum of the a[j] * b[k + 1 - j] for j from i
ColumnSum(a, b, k, i) ==
    IF i > Len(a) \/ i > k THEN 0
    ELSE (IF k + 1 - i <= Len(b) THEN a[i] * b[k + 1 - i] ELSE 0)
         + ColumnSum(a, b, k, i + 1)

RECURSIVE Carried(_, _)
\* the digits of the number whose columns, the last first, sum to cols, with
\* the carry c
Carried(cols, c) ==
    IF cols = <<>>
    THEN IF c = 0 THEN <<>> ELSE <<c % 10>> \o Carried(<<>>, c \div 10)
    ELSE <<(cols[1] + c) % 10>> \o Carried(Tail(cols), (cols[1] + c) \div 10)

\* the digits p, given the last first, as text
DigitText(p) == [i \in 1..Len(p) |-> Digit[p[Len(p) + 1 - i] + 1]]

\* the digits, the first digit first, of the product of two magnitudes
ProductDigits(a, b) ==
    DigitText(Carried([k \in 1..(Len(a) + Len(b) - 1) |-> ColumnSum(a, b, k, 1)],
                      0))

\* a * b for integers other than zero
Product(a, b) ==
    Normal(Negative(a) # Negative(b),
           StripZeros(ProductDigits(Digits(a), Digits(b))))

\* a * b for bounds: zero times any bound is zero, and otherwise a product
\* with the infinite bound is the infinite bound
Times(a, b) ==
    IF IsZero(a) \/ IsZero(b) THEN Value(0)
    ELSE IF a.cls = "HUGE" \/ b.cls = "HUGE" THEN HUGE
    ELSE Product(a, b)

RECURSIVE optimize(_)
optimize(self) ==
    IF self.cls # "WildcardPattern" THEN Returned(self)
    ELSE
      LET single == self.content # None /\ Len(self.content[1]) = 1
                      /\ Len(self.content[1][1]) = 1
          subpattern == self.content[1][1][1]
      IN  IF IsOne(self.min) /\ IsOne(self.max) /\ self.content = None
          THEN Returned([NodePattern("None", None) EXCEPT !.name = self.name])
          ELSE IF IsOne(self.min) /\ IsOne(self.max) /\ single
                    /\ self.name = subpattern.name
          THEN optimize(subpattern)
          ELSE IF LeOne(self.min) /\ single
                    /\ subpattern.cls = "WildcardPattern"
                    /\ LeOne(subpattern.min) /\ self.name = subpattern.name
          THEN Returned(WildcardPattern(subpattern.content,
                                        Times(self.min, subpattern.min),
                                        Times(self.max, subpattern.max),
                                        subpattern.name))
          ELSE Returned(self)

(***************************************************************************)
(* Collaborators of the compiler: literals.evalString, the token table of  *)
(* the target grammar (pygram.token, pygram.token.opmap) and its symbol    *)
(* table (pygram.symbols).                                                 *)
(***************************************************************************)
Quote == {"'", "\""}

\* s[-n:] is n times the character s[1]
EndsWithQuote(s, n) ==
    Len(s) >= n /\ \A i \in (Len(s) - n + 1)..Len(s) : s[i] = s[1]

Unquote(s, n) ==
    IF EndsWithQuote(s, n) /\ Len(s) >= 2 * n
    THEN Value(SubSeq(s, n + 1, Len(s) - n))
    ELSE AssertionError

\* the escapes of one character
simple_escapes ==
    ("a" :> chr(7)) @@ ("b" :> chr(8)) @@ ("f" :> "\f") @@ ("n" :> "\n")
    @@ ("r" :> "\r") @@ ("t" :> "\t") @@ ("v" :> chr(11)) @@ ("'" :> "'")
    @@ ("\"" :> "\"") @@ ("\\" :> "\\")

HexLetter ==
    ("a" :> 10) @@ ("b" :> 11) @@ ("c" :> 12) @@ ("d" :> 13) @@ ("e" :> 14)
    @@ ("f" :> 15) @@ ("A" :> 10) @@ ("B" :> 11) @@ ("C" :> 12) @@ ("D" :> 13)
    @@ ("E" :> 14) @@ ("F" :> 15)

IsHexDigit(c) == IsDigit(c) \/ c \in DOMAIN HexLetter

HexValue(c) == IF c \in DOMAIN HexLetter THEN HexLetter[c] ELSE DigitValue(c)

OctDigit == {"0", "1", "2", "3", "4", "5", "6", "7"}

RECURSIVE Positional(_, _, _)
\* the number the digits ds continue from acc in the given base
Positional(ds, base, acc) ==
    IF ds = <<>> THEN acc
    ELSE Positional(Tail(ds), base, base * acc + HexValue(ds[1]))

\* int(t, 16) once the whitespace and the sign are gone
HexBody(neg, body) ==
    IF body # <<>> /\ \A i \in 1..Len(body) : IsHexDigit(body[i])
    THEN Value(IF neg THEN 0 - Positional(body, 16, 0)
               ELSE Positional(body, 16, 0))
    ELSE ValueError

HexSigned(t, signed) ==
    HexBody(signed /\ t[1] = "-", IF signed THEN Tail(t) ELSE t)

HexTrimmed(t) == HexSigned(t, t # <<>> /\ t[1] \in {"+", "-"})

\* int(t, 16) for a text t of two characters: whitespace around, an optional
\* sign, hexadecimal digits (two characters leave no room for an underscore
\* between digits or for digits after a 0x prefix)
int16(t) == HexTrimmed(strip(t))

\* the tail x.{0,2} of a match at the backslash s[1]: the characters after
\* the x, two at most, up to a newline
hexes(s) ==
    IF Len(s) < 3 \/ s[3] = "\n" THEN <<>>
    ELSE IF Len(s) < 4 \/ s[4] = "\n" THEN <<s[3]>>
    ELSE <<s[3], s[4]>>

\* the length of the tail [0-7]{1,3} of a match at the backslash s[1]
OctRun(s) ==
    IF Len(s) < 3 \/ s[3] \notin OctDigit THEN 1
    ELSE IF Len(s) < 4 \/ s[4] \notin OctDigit THEN 2
    ELSE 3

\* chr(i) for the integer int(hexes, 16) returned
hex_chr(i) ==
    IF IsRaise(i) THEN ValueError
    ELSE IF i.v < 0 THEN ValueError
    ELSE Value(chr(i.v))

\* literals.escape for a hexadecimal tail: chr(int(hexes, 16))
hex_escape(h) == IF Len(h) < 2 THEN ValueError ELSE hex_chr(int16(h))

\* literals.escape for an octal tail of n digits at the backslash s[1]
oct_escape(s, n) == Value(chr(Positional(SubSeq(s, 2, n + 1), 8, 0)))

RECURSIVE unescape(_, _), replaced(_, _, _)

\* the match that starts at s[1] is replaced by what escape returned
replaced(c, rest, acc) ==
    IF IsRaise(c) THEN c ELSE unescape(rest, Append(acc, c.v))

\* re.sub(r"\\(\'|\"|\\|[abfnrtv]|x.{0,2}|[0-7]{1,3})", escape, s) from left to
\* right, acc being the text so far; a backslash that starts no match stays
unescape(s, acc) ==
    IF s = <<>> THEN Value(acc)
    ELSE IF s[1] = "\\" /\ Len(s) >= 2 /\ s[2] \in DOMAIN simple_escapes
    THEN replaced(Value(simple_escapes[s[2]]), SubSeq(s, 3, Len(s)), acc)
    ELSE IF s[1] = "\\" /\ Len(s) >= 2 /\ s[2] = "x"
    THEN replaced(hex_escape(hexes(s)), SubSeq(s, 5, Len(s)), acc)
    ELSE IF s[1] = "\\" /\ Len(s) >= 2 /\ s[2] \in OctDigit
    THEN replaced(oct_escape(s, OctRun(s)), SubSeq(s, OctRun(s) + 2, Len(s)), acc)
    ELSE replaced(Value(s[1]), Tail(s), acc)

\* the text between the quotes, single or triple, unescaped
Unescaped(body) == IF IsRaise(body) THEN body ELSE unescape(body.v, <<>>)

\* literals.evalString: the value of a string literal
evalString(s) ==
    IF Len(s) = 0 \/ s[1] \notin Quote THEN AssertionError
    ELSE Unescaped(Unquote(s, IF Len(s) >= 3 /\ s[2] = s[1] /\ s[3] = s[1]
                              THEN 3 ELSE 1))

opmap == (<<"+">> :> "PLUS") @@ (<<"(">> :> "LPAR") @@ (<<"=">> :> "EQUAL")
         @@ (<<"*">> :> "STAR")

pygram_symbols == (<<"e", "x", "p", "r">> :> "expr")
                  @@ (<<"a", "t", "o", "m">> :> "atom")

\* self.token_map, set in __init__
token_map == (<<"N", "A", "M", "E">> :> "NAME")
             @@ (<<"S", "T", "R", "I", "N", "G">> :> "STRING")
             @@ (<<"N", "U", "M", "B", "E", "R">> :> "NUMBER")
             @@ (<<"T", "O", "K", "E", "N">> :> "None")

_type_of_literal(value) ==
    IF Len(value) = 0 THEN IndexError
    ELSE IF isalpha(value[1]) THEN Value("NAME")
    ELSE IF value \in DOMAIN opmap THEN Value(opmap[value]) ELSE Value("None")

get_int(node) ==
    IF node.type # "NUMBER" THEN AssertionError ELSE int(node.value)

(***************************************************************************)
(* PatternCompiler.compile_node and compile_basic.                         *)
(***************************************************************************)
List(items) == [cls |-> "List", items |-> items]

\* node.children[::2]
EvenChildren(children) ==
    [i \in 1..((Len(children) + 1) \div 2) |-> children[2 * i - 1]]

\* [[a] for a in alts]
Singletons(alts) == [i \in 1..Len(alts) |-> <<alts[i]>>]

\* variant: the Alternatives case without the single-alternative shortcut
compile_alternatives_always_wrap(alts) ==
    LET p == WildcardPattern(Some(Singletons(alts)), Value(1), Value(1), None)
    IN  IF IsRaise(p) THEN p ELSE optimize(p)

\* the Alternatives case once the alternatives are compiled
compile_alternatives(alts) ==
    IF Len(alts) = 1 THEN alts[1]
    ELSE LET p == WildcardPattern(Some(Singletons(alts)), Value(1), Value(1), None)
         IN  IF IsRaise(p) THEN p ELSE optimize(p)

\* variant: the Alternative case building one alternative per unit
compile_alternative_as_choice(units) ==
    IF Len(units) = 1 THEN units[1]
    ELSE LET p == WildcardPattern(Some(Singletons(units)), Value(1), Value(1), None)
         IN  IF IsRaise(p) THEN p ELSE optimize(p)

\* the Alternative case once the units are compiled
compile_alternative(units) ==
    IF Len(units) = 1 THEN units[1]
    ELSE LET p == WildcardPattern(Some(<<units>>), Value(1), Value(1), None)
         IN  IF IsRaise(p) THEN p ELSE optimize(p)

\* the NegatedUnit case once the basic pattern is compiled
compile_negated(basic) == optimize(NegatedPattern(basic))

\* the Unit case: the optional "name =" prefix
HasName(nodes) == Len(nodes) >= 3 /\ nodes[2].type = "EQUAL"
unit_name(nodes) ==
    IF ~HasName(nodes) THEN Value(None)
    ELSE IF IsNode(nodes[1]) THEN AttributeError
    ELSE Value(Some(nodes[1].value))
strip_name(nodes) ==
    IF HasName(nodes) THEN SubSeq(nodes, 3, Len(nodes)) ELSE nodes

\* the Unit case: the optional Repeater suffix, after the prefix is gone
HasRepeat(nodes) == Len(nodes) >= 2 /\ nodes[Len(nodes)].type = "Repeater"
unit_repeat(nodes) == IF HasRepeat(nodes) THEN nodes[Len(nodes)] ELSE NoNode
strip_repeat(nodes) ==
    IF HasRepeat(nodes) THEN SubSeq(nodes, 1, Len(nodes) - 1) ELSE nodes

\* variant: (min, max) of a Repeater with {n,m} put in order
repeat_bounds_ordered(repeat) ==
    LET children == repeat.children
        child == children[1]
    IN  IF child.type = "STAR"
        THEN [cls |-> "Bounds", min |-> Value(0), max |-> HUGE]
        ELSE IF child.type = "PLUS"
        THEN [cls |-> "Bounds", min |-> Value(1), max |-> HUGE]
        ELSE LET n == int(children[2].value)
                 m == IF Len(children) = 5 THEN int(children[4].value) ELSE n
             IN  IF IsRaise(n) THEN n
                 ELSE IF IsRaise(m) THEN m
                 ELSE IF n.cls = "Value" /\ m.cls = "Value" /\ m.v < n.v
                 THEN [cls |-> "Bounds", min |-> m, max |-> n]
                 ELSE [cls |-> "Bounds", min |-> n, max |-> m]

\* the Unit case: (min, max) of a Repeater
repeat_bounds(repeat) ==
    LET children == repeat.children
        child == children[1]
    IN  IF repeat.type # "Repeater" THEN AssertionError
        ELSE IF children = <<>> THEN IndexError
        ELSE IF child.type = "STAR"
        THEN [cls |-> "Bounds", min |-> Value(0), max |-> HUGE]
        ELSE IF child.type = "PLUS"
        THEN [cls |-> "Bounds", min |-> Value(1), max |-> HUGE]
        ELSE IF child.type = "LBRACE"
        THEN IF children[Len(children)].type # "RBRACE" THEN AssertionError
             ELSE IF Len(children) \notin {3, 5} THEN AssertionError
             ELSE LET n == get_int(children[2])
                  IN  IF IsRaise(n) THEN n
                      ELSE IF Len(children) = 5
                      THEN LET m == get_int(children[4])
                           IN  IF IsRaise(m) THEN m
                               ELSE [cls |-> "Bounds", min |-> n, max |-> m]
                      ELSE [cls |-> "Bounds", min |-> n, max |-> n]
        ELSE AssertionError

\* variant: the repeat wrapper built for (1, 1) too
wrap_repeat_always(basic, min, max) ==
    LET o == optimize(basic)
    IN  IF IsRaise(o) THEN o
        ELSE WildcardPattern(Some(<<<<o>>>>), min, max, None)

\* the Unit case: the repeat wrapper; min and max are HUGE or what get_int
\* returned
wrap_repeat(basic, min, max) ==
    IF ~IsOne(min) \/ ~IsOne(max)
    THEN LET o == optimize(basic)
         IN  IF IsRaise(o) THEN o
             ELSE WildcardPattern(Some(<<<<o>>>>), min, max, None)
    ELSE basic

\* variant: a name already on the pattern is kept
set_name_keep_inner(p, name) ==
    IF name # None /\ p.name = None THEN [p EXCEPT !.name = name] ELSE p

\* the Unit case: pattern.name = name; name is None or Some(text)
set_name(p, name) == IF name # None THEN [p EXCEPT !.name = name] ELSE p

\* variant: the name set on the basic pattern before the repeat wrapper is built
unit_pattern_name_inner(basic, repeat, name) ==
    IF IsRaise(basic) THEN basic
    ELSE IF repeat # NoNode
    THEN LET b == repeat_bounds(repeat)
         IN  IF IsRaise(b) THEN b
             ELSE wrap_repeat(set_name(basic, name), b.min, b.max)
    ELSE set_name(basic, name)

\* the Unit case from the compiled basic pattern to the local variable
\* pattern as it stands before the final optimize()
unit_pattern(basic, repeat, name) ==
    IF IsRaise(basic) THEN basic
    ELSE IF repeat # NoNode
    THEN LET b == repeat_bounds(repeat)
         IN  IF IsRaise(b) THEN b
             ELSE LET w == wrap_repeat(basic, b.min, b.max)
                  IN  IF IsRaise(w) THEN w ELSE set_name(w, name)
    ELSE set_name(basic, name)

\* variant: the optional group with its bounds exchanged
optional_group_one_zero(subpattern) ==
    WildcardPattern(Some(<<<<subpattern>>>>), Value(1), Value(0), None)

\* compile_basic, "[" branch: the wrapper of the compiled Alternatives
optional_group(subpattern) ==
    WildcardPattern(Some(<<<<subpattern>>>>), Value(0), Value(1), None)

\* compile_basic, NAME branch, uppercase text
token_leaf(value, rest) ==
    IF value \notin DOMAIN token_map THEN PatternSyntaxError
    ELSE IF rest # <<>> THEN PatternSyntaxError
    ELSE LeafPattern(token_map[value], None)

\* compile_basic, NAME branch, other text: the local variable type, "Unbound"
\* when no branch assigns it
symbol_type(value) ==
    IF value = <<"a", "n", "y">> THEN Value("None")
    ELSE IF ~startswith_underscore(value)
    THEN IF value \in DOMAIN pygram_symbols THEN Value(pygram_symbols[value])
         ELSE PatternSyntaxError
    ELSE Value("Unbound")

\* compile_basic, NAME branch: the NodePattern once the details are compiled
symbol_node(type, content) ==
    IF type.v = "Unbound" THEN UnboundLocalError
    ELSE NodePattern(type.v, content)

RECURSIVE compile_node(_), compile_basic(_, _), compile_each(_), unit_local(_)

\* [self.compile_node(ch) for ch in nodes]
compile_each(nodes) ==
    IF nodes = <<>> THEN List(<<>>)
    ELSE LET h == compile_node(Head(nodes))
         IN  IF IsRaise(h) THEN h
             ELSE LET t == compile_each(Tail(nodes))
                  IN  IF IsRaise(t) THEN t ELSE List(<<h>> \o t.items)

\* the local variable pattern of the Unit case before return pattern.optimize()
unit_local(node) ==
    LET nodes == node.children
        name == unit_name(nodes)
        nodes1 == strip_name(nodes)
        repeat == unit_repeat(nodes1)
        nodes2 == strip_repeat(nodes1)
    IN  IF IsRaise(name) THEN name
        ELSE unit_pattern(compile_basic(nodes2, repeat), repeat, name.v)

compile_node(node0) ==
    LET node == IF node0.type = "Matcher" THEN node0.children[1] ELSE node0
    IN  IF node0.type = "Matcher" /\ node0.children = <<>> THEN IndexError
        ELSE IF node.type = "Alternatives"
        THEN LET alts == compile_each(EvenChildren(node.children))
             IN  IF IsRaise(alts) THEN alts ELSE compile_alternatives(alts.items)
        ELSE IF node.type = "Alternative"
        THEN LET units == compile_each(node.children)
             IN  IF IsRaise(units) THEN units ELSE compile_alternative(units.items)
        ELSE IF node.type = "NegatedUnit"
        THEN LET basic == compile_basic(SubSeq(node.children, 2, Len(node.children)),
                                        NoNode)
             IN  IF IsRaise(basic) THEN basic ELSE compile_negated(basic)
        ELSE IF node.type # "Unit" THEN AssertionError
        ELSE LET p == unit_local(node)
             IN  IF IsRaise(p) THEN p ELSE optimize(p)

compile_basic(nodes, repeat) ==
    IF Len(nodes) < 1 THEN AssertionError
    ELSE
      LET node == nodes[1]
      IN  IF node.type = "STRING"
          THEN LET value == evalString(node.value)
               IN  IF IsRaise(value) THEN value
                   ELSE LET type == _type_of_literal(value.v)
                        IN  IF IsRaise(type) THEN type
                            ELSE LeafPattern(type.v, Some(value.v))
          ELSE IF node.type = "NAME"
          THEN LET value == node.value
               IN  IF isupper(value) THEN token_leaf(value, Tail(nodes))
                   ELSE LET type == symbol_type(value)
                        IN  IF IsRaise(type) THEN type
                            ELSE IF Tail(nodes) # <<>>
                            THEN IF Len(nodes[2].children) < 2 THEN IndexError
                                 ELSE LET c == compile_node(nodes[2].children[2])
                                      IN  IF IsRaise(c) THEN c
                                          ELSE symbol_node(type, Some(<<c>>))
                            ELSE symbol_node(type, None)
          ELSE IF IsNode(node) THEN AttributeError
          ELSE IF node.value = <<"(">>
          THEN IF Len(nodes) < 2 THEN IndexError ELSE compile_node(nodes[2])
          ELSE IF node.value = <<"[">>
          THEN IF repeat # NoNode THEN AssertionError
               ELSE IF Len(nodes) < 2 THEN IndexError
               ELSE LET subpattern == compile_node(nodes[2])
                    IN  IF IsRaise(subpattern) THEN subpattern
                        ELSE optional_group(subpattern)
          ELSE AssertionError

(***************************************************************************)
(* Well-formed pattern syntax trees, as the driver builds them for the     *)
(* pattern grammar:                                                        *)
(*   Matcher: Alternatives ENDMARKER                                       *)
(*   Alternatives: Alternative ('|' Alternative)*                          *)
(*   Alternative: (Unit | NegatedUnit)+                                    *)
(*   Unit: [NAME '='] ( STRING [Repeater] | NAME [Details] [Repeater]      *)
(*                    | '(' Alternatives ')' [Repeater]                    *)
(*                    | '[' Alternatives ']' )                             *)
(*   NegatedUnit: 'not' (STRING | NAME [Details] | '(' Alternatives ')')   *)
(*   Repeater: '*' | '+' | '{' NUMBER [',' NUMBER] '}'                     *)
(*   Details: '<' Alternatives '>'                                         *)
(***************************************************************************)
tok(type, text) == pattern_convert(type, text, <<>>)
nt(type, children) == pattern_convert(type, None, children)

txNAME == <<"N", "A", "M", "E">>
txNUMBER == <<"N", "U", "M", "B", "E", "R">>
txSTRING == <<"S", "T", "R", "I", "N", "G">>
txTOKEN == <<"T", "O", "K", "E", "N">>
txFOO == <<"F", "O", "O">>
txany == <<"a", "n", "y">>
txexpr == <<"e", "x", "p", "r">>
txfrobnicate == <<"f", "r", "o", "b", "n", "i", "c", "a", "t", "e">>
tx_x == <<"_", "x">>
txx == <<"x">>
txy == <<"y">>

Star == nt("Repeater", <<tok("STAR", <<"*">>)>>)
Plus == nt("Repeater", <<tok("PLUS", <<"+">>)>>)
Brace1(t) ==
    nt("Repeater", <<tok("LBRACE", <<"{">>), tok("NUMBER", t),
                     tok("RBRACE", <<"}">>)>>)
Brace2(t, u) ==
    nt("Repeater", <<tok("LBRACE", <<"{">>), tok("NUMBER", t),
                     tok("COMMA", <<",">>), tok("NUMBER", u),
                     tok("RBRACE", <<"}">>)>>)

\* a NUMBER text of one digit more than the default limit of int()
LongNumber == [i \in 1..4301 |-> "1"]

\* a NUMBER text of one digit more than the least limit of int()
Number641 == [i \in 1..641 |-> "1"]

\* NUMBER texts that are not plain small decimals: an underscore, a radix
\* prefix, and 3000000000
OddNumbers ==
    {<<"1", "_", "0">>, <<"0", "x", "1", "0">>,
     <<"3", "0", "0", "0", "0", "0", "0", "0", "0", "0">>}

Counts == 0..MaxCount
Repeaters ==
    {Star, Plus} \cup {Brace1(Decimal(n)) : n \in Counts}
    \cup {Brace1(<<"0">> \o Decimal(n)) : n \in {1}}
    \cup {Brace2(Decimal(n), Decimal(m)) : n \in Counts, m \in Counts}

MkUnit(prefix, basic, repeat) ==
    nt("Unit",
       (IF prefix # None THEN <<tok("NAME", prefix[1]), tok("EQUAL", <<"=">>)>>
        ELSE <<>>)
       \o basic
       \o (IF repeat # NoNode THEN <<repeat>> ELSE <<>>))

MkNegated(basic) == nt("NegatedUnit", <<tok("NAME", <<"n", "o", "t">>)>> \o basic)

MkAlternative(units) == nt("Alternative", units)

\* alternatives separated by '|' tokens at the odd (0-based) positions
MkAlternatives(alts) ==
    nt("Alternatives",
       [i \in 1..(2 * Len(alts) - 1) |->
          IF i % 2 = 1 THEN alts[(i + 1) \div 2] ELSE tok("VBAR", <<"|">>)])

MkMatcher(a) == nt("Matcher", <<a, tok("ENDMARKER", <<>>)>>)

Single(u) == MkAlternatives(<<MkAlternative(<<u>>)>>)

Group(a) == <<tok("LPAR", <<"(">>), a, tok("RPAR", <<")">>)>>
Optional(a) == <<tok("LSQB", <<"[">>), a, tok("RSQB", <<"]">>)>>
Details(a) ==
    nt("Details", <<tok("LESS", <<"<">>), a, tok("GREATER", <<">">>)>>)

\* basic patterns made of one token
Heads ==
    {<<tok("NAME", t)>> :
        t \in {txNAME, txNUMBER, txSTRING, txTOKEN, txFOO, txany, txexpr,
               txfrobnicate, tx_x}}
    \cup {<<tok("STRING", <<"'", "x", "'">>)>>, <<tok("STRING", <<"'", "+", "'">>)>>,
          <<tok("STRING", <<"'", "é", "'">>)>>}

\* every unit over one token: prefix x basic x repeater
LeafUnits ==
    {MkUnit(p, h, r) : p \in {None, Some(txx), Some(txy)}, h \in Heads,
                       r \in Repeaters \cup {NoNode}}

SeedUnits ==
    {MkUnit(Some(txy), <<tok("NAME", txNAME)>>, NoNode),
     MkUnit(None, <<tok("NAME", txNAME)>>, Star),
     MkUnit(Some(txx), <<tok("NAME", txNUMBER)>>, Star),
     MkUnit(None, <<tok("NAME", txfrobnicate)>>, NoNode),
     MkUnit(None, <<tok("NAME", tx_x)>>, NoNode)}

\* the units and negated units that hold one nested unit
Wraps(u) ==
    {MkUnit(p, Group(Single(u)), r) :
        p \in {Some(txx)}, r \in {NoNode, Star, Brace1(<<"1">>), Brace1(<<"0">>)}}
    \cup {MkUnit(None, Group(Single(u)), r) : r \in {NoNode, Plus}}
    \cup {MkUnit(None, Optional(Single(u)), NoNode)}
    \cup {MkUnit(None, <<tok("NAME", txany), Details(Single(u))>>, NoNode)}
    \cup {MkNegated(Group(Single(u)))}

RECURSIVE Nested(_)
Nested(d) ==
    IF d = 0 THEN SeedUnits
    ELSE Nested(d - 1) \cup UNION {Wraps(u) : u \in Nested(d - 1)}

SeqItems ==
    {MkUnit(None, <<tok("NAME", txNAME)>>, NoNode),
     MkUnit(Some(txx), <<tok("NAME", txNUMBER)>>, Star),
     MkUnit(None, <<tok("NAME", txany)>>, NoNode),
     MkNegated(<<tok("NAME", txNAME)>>)}

\* units that make compile_basic raise, and one that does not
FailItems ==
    {MkUnit(None, <<tok("NAME", txfrobnicate)>>, NoNode),
     MkUnit(None, <<tok("NAME", tx_x)>>, NoNode),
     MkUnit(None, <<tok("NAME", txFOO)>>, NoNode),
     MkUnit(None, <<tok("NAME", txNAME)>>, Brace2(<<"2">>, <<"1">>)),
     MkUnit(None, <<tok("NAME", txNAME)>>, Brace1(<<"0", "x", "1", "0">>)),
     MkUnit(None, <<tok("NAME", txNAME)>>, NoNode)}

SeqsUpTo(S, n) == UNION {[1..k -> S] : k \in 1..n}

AlternativeTrees == {MkAlternative(us) : us \in SeqsUpTo(SeqItems, MaxUnits)}

\* the alternatives of the explored choices: one unit, or a sequence of two
AltChoices ==
    {MkAlternative(<<u>>) : u \in SeqItems}
    \cup {MkAlternative(<<MkUnit(None, <<tok("NAME", txNAME)>>, NoNode), u>>) :
            u \in SeqItems}

AlternativesTrees ==
    {MkAlternatives(<<a>>) : a \in AlternativeTrees}
    \cup {MkAlternatives(as) : as \in SeqsUpTo(AltChoices, MaxAlts)}

\* units with a Details clause or an optional group that the nested units
\* above do not hold
MoreUnits ==
    {MkUnit(p, <<tok("NAME", t), Details(Single(u))>>, r) :
        p \in {None, Some(txx)}, t \in {txNUMBER, tx_x, txexpr},
        u \in SeedUnits, r \in {NoNode, Star}}
    \cup {MkUnit(Some(txx), Optional(Single(u)), NoNode) : u \in Nested(1)}

FailTrees ==
    {MkAlternatives(<<MkAlternative(<<u, v>>)>>) : u \in FailItems, v \in FailItems}
    \cup {MkAlternatives(<<MkAlternative(<<u>>), MkAlternative(<<v>>)>>) :
            u \in FailItems, v \in FailItems}

\* STRING texts with backslash escapes: '\n', '\x41', '\x4', '\101', '\z',
\* '\'' and '\x2b'
EscapedStrings ==
    {<<"'", "\\", "n", "'">>, <<"'", "\\", "x", "4", "1", "'">>,
     <<"'", "\\", "x", "4", "'">>, <<"'", "\\", "1", "0", "1", "'">>,
     <<"'", "\\", "z", "'">>, <<"'", "\\", "'", "'">>,
     <<"'", "\\", "x", "2", "b", "'">>}

EscapedUnits ==
    {MkUnit(p, <<tok("STRING", t)>>, r) :
        p \in {None, Some(txx)}, t \in EscapedStrings, r \in {NoNode, Star}}

\* units whose Repeater holds one of the odd NUMBER texts, or a long one, or
\* {5,2}
OddUnits ==
    {MkUnit(p, h, r) :
        p \in {None, Some(txx)},
        h \in {<<tok("NAME", txNAME)>>, <<tok("NAME", txfrobnicate)>>},
        r \in {Brace1(t) : t \in OddNumbers}
              \cup {Brace2(<<"1">>, t) : t \in OddNumbers}
              \cup {Brace2(t, <<"1">>) : t \in OddNumbers}}
    \cup {MkUnit(None, <<tok("NAME", txNAME)>>, Brace1(LongNumber)),
          MkUnit(Some(txx), <<tok("NAME", txNAME)>>, Brace2(<<"1">>, LongNumber)),
          MkUnit(None, <<tok("NAME", txNAME)>>, Brace1(Number641)),
          MkUnit(None, <<tok("NAME", txNAME)>>, Brace2(<<"5">>, <<"2">>)),
          MkUnit(Some(txy), <<tok("NAME", txNAME)>>, Brace2(<<"5">>, <<"2">>))}

\* a repeated group over a repeated token: wrappers optimize() may merge
MergeRepeaters ==
    {Star, Brace1(<<"0">>), Brace2(<<"1">>, <<"0">>), Brace2(<<"0">>, <<"2">>),
     Brace2(<<"1">>, <<"2">>),
     Brace2(<<"0">>, <<"3", "0", "0", "0", "0", "0", "0", "0", "0", "0">>)}

MergeUnits ==
    {MkUnit(None, Group(Single(MkUnit(None, <<tok("NAME", txNAME)>>, r))), q) :
        r \in MergeRepeaters, q \in MergeRepeaters}

Roots ==
    {MkMatcher(Single(u)) :
        u \in LeafUnits \cup Nested(MaxDepth) \cup MoreUnits \cup OddUnits
              \cup EscapedUnits \cup MergeUnits}
    \cup {MkMatcher(a) : a \in FailTrees}
    \cup {MkMatcher(a) : a \in AlternativesTrees}
    \cup {MkMatcher(Single(MkUnit(Some(txx), Group(a), Star))) : a \in AlternativesTrees}
    \cup {MkMatcher(Single(MkUnit(None, Optional(a), NoNode))) : a \in AlternativesTrees}

RECURSIVE Nodes(_)
\* a node and all its descendants
Nodes(t) == {t} \cup UNION {Nodes(t.children[i]) : i \in 1..Len(t.children)}

Compilable == {"Matcher", "Alternatives", "Alternative", "NegatedUnit", "Unit"}

(***************************************************************************)
(* The state machine: a parsed pattern, then one call of an operation of   *)
(* the compiler on the tree or on one of the nodes the recursion visits.   *)
(***************************************************************************)
NoPattern == [cls |-> "NoPattern"]
Pair(p, root) == [cls |-> "Pair", first |-> p, second |-> root]
NoCall == [op |-> "none", node |-> NoNode, nodes |-> <<>>, repeat |-> NoNode,
           with_tree |-> FALSE]

\* what driver.parse_tokens does with the input: it returns a tree, raises
\* parse.ParseError, or lets an exception of the token generator pass
\* (tokenize.TokenError, IndentationError)
DriverOutcomes == {"tree", "ParseError", "TokenError", "IndentationError"}

Init ==
    /\ int_max_str_digits \in IntMaxStrDigits
    /\ driver \in DriverOutcomes
    /\ tree \in IF driver = "tree" THEN Roots ELSE {NoNode}
    /\ pc = "parsed"
    /\ call = NoCall
    /\ result = NoPattern
    /\ pattern = NoPattern

\* compile_pattern: a ParseError of the driver is raised again as
\* PatternSyntaxError, any other exception of the driver propagates, a parsed
\* tree is compiled
compile_pattern(with_tree) ==
    /\ pc = "parsed"
    /\ LET p == IF driver = "ParseError" THEN PatternSyntaxError
                ELSE IF driver # "tree" THEN Raise(driver)
                ELSE compile_node(tree)
       IN  result' = IF IsRaise(p) \/ ~with_tree THEN p ELSE Pair(p, tree)
    /\ call' = [NoCall EXCEPT !.op = "compile_pattern", !.node = tree,
                              !.with_tree = with_tree]
    /\ pattern' = NoPattern
    /\ pc' = "done"
    /\ UNCHANGED <<int_max_str_digits, driver, tree>>

CompileNode(n) ==
    /\ pc = "parsed"
    /\ result' = compile_node(n)
    /\ pattern' = IF n.type = "Unit" THEN unit_local(n) ELSE NoPattern
    /\ call' = [NoCall EXCEPT !.op = "compile_node", !.node = n]
    /\ pc' = "done"
    /\ UNCHANGED <<int_max_str_digits, driver, tree>>

\* the arguments compile_node passes to compile_basic for node n
BasicNodes(n) ==
    IF n.type = "Unit" THEN strip_repeat(strip_name(n.children))
    ELSE SubSeq(n.children, 2, Len(n.children))
BasicRepeat(n) ==
    IF n.type = "Unit" THEN unit_repeat(strip_name(n.children)) ELSE NoNode

CompileBasic(n) ==
    /\ pc = "parsed"
    /\ result' = compile_basic(BasicNodes(n), BasicRepeat(n))
    /\ pattern' = NoPattern
    /\ call' = [NoCall EXCEPT !.op = "compile_basic", !.node = n,
                              !.nodes = BasicNodes(n),
                              !.repeat = BasicRepeat(n)]
    /\ pc' = "done"
    /\ UNCHANGED <<int_max_str_digits, driver, tree>>

GetInt(n) ==
    /\ pc = "parsed"
    /\ result' = get_int(n)
    /\ pattern' = NoPattern
    /\ call' = [NoCall EXCEPT !.op = "get_int", !.node = n]
    /\ pc' = "done"
    /\ UNCHANGED <<int_max_str_digits, driver, tree>>

Next ==
    \/ \E b \in BOOLEAN : compile_pattern(b)
    \/ \E n \in {m \in Nodes(tree) : m.type \in Compilable} : CompileNode(n)
    \/ \E n \in {m \in Nodes(tree) : m.type \in {"Unit", "NegatedUnit"}} : CompileBasic(n)
    \/ \E n \in {m \in Nodes(tree) : m.type = "NUMBER"} : GetInt(n)

Spec == Init /\ [][Next]_vars

(***************************************************************************)
(* Properties.                                                             *)
(***************************************************************************)
Done(op) == pc = "done" /\ call.op = op
Compiled == pc = "done" /\ call.op \in {"compile_node", "compile_pattern"}

\* the pattern a call returned, without the tree compile_pattern may pair it with
ResultPattern == IF result.cls = "Pair" THEN result.first ELSE result

SameNode(a, b) == a.cls = b.cls /\ a = b

IsUnitCall == Done("compile_node") /\ call.node.type = "Unit"
CallName == unit_name(call.node.children).v
CallRepeat == BasicRepeat(call.node)
CallBasic == compile_basic(BasicNodes(call.node), BasicRepeat(call.node))

\* min and max as the text of a Repeater spells them: integers, or texts
\* that are no integer
Spelled(repeat) ==
    LET c == repeat.children
    IN  IF c[1].value = <<"*">> THEN [min |-> Value(0), max |-> HUGE]
        ELSE IF c[1].value = <<"+">> THEN [min |-> Value(1), max |-> HUGE]
        ELSE IF Len(c) = 3 THEN [min |-> int(c[2].value), max |-> int(c[2].value)]
        ELSE [min |-> int(c[2].value), max |-> int(c[4].value)]

\* both texts are integers
SpelledIntegers(repeat) ==
    ~IsRaise(Spelled(repeat).min) /\ ~IsRaise(Spelled(repeat).max)

\* the Repeater spells (1, 1)
SpelledOneOne(repeat) ==
    LET b == Spelled(repeat)
    IN  b.min.cls = "Value" /\ b.max.cls = "Value" /\ b.min.v = 1 /\ b.max.v = 1

\* the same bound
NumEq(a, b) == a.cls = b.cls /\ a = b

\* x <= y for magnitudes given by their digits, the last digit first
MagLeq(x, y) ==
    \/ Len(x) < Len(y)
    \/ /\ Len(x) = Len(y)
       /\ \/ x = y
          \/ \E i \in 1..Len(x) :
                x[i] < y[i] /\ \A j \in (i + 1)..Len(x) : x[j] = y[j]

\* a <= b for bounds, HUGE being above every integer
NumLeq(a, b) ==
    IF b.cls = "HUGE" THEN TRUE
    ELSE IF a.cls = "HUGE" THEN FALSE
    ELSE IF Negative(a) # Negative(b) THEN Negative(a)
    ELSE IF Negative(a) THEN MagLeq(Digits(b), Digits(a))
    ELSE MagLeq(Digits(a), Digits(b))

\* every {n,m} Repeater in the tree t has n <= m
RepeatersOrdered(t) ==
    \A r \in {n \in Nodes(t) : n.type = "Repeater"} :
        (Len(r.children) = 5 /\ SpelledIntegers(r))
            => NumLeq(Spelled(r).min, Spelled(r).max)

RECURSIVE EmbeddedOptimized(_)
\* every pattern embedded in p, at any depth, is the return value of optimize()
EmbeddedOptimized(p) ==
    IF p.cls = "NodePattern"
    THEN p.content # None =>
           \A i \in 1..Len(p.content[1]) :
              p.content[1][i].optimized /\ EmbeddedOptimized(p.content[1][i])
    ELSE IF p.cls = "WildcardPattern"
    THEN p.content # None =>
           \A i \in 1..Len(p.content[1]) : \A j \in 1..Len(p.content[1][i]) :
              /\ p.content[1][i][j].optimized
              /\ EmbeddedOptimized(p.content[1][i][j])
    ELSE IF p.cls = "NegatedPattern"
    THEN p.content.optimized /\ EmbeddedOptimized(p.content)
    ELSE TRUE

RECURSIVE WildcardsInRange(_)
\* every WildcardPattern in p, p included, has max >= min >= 0
WildcardsInRange(p) ==
    IF p.cls = "NodePattern"
    THEN p.content # None =>
           \A i \in 1..Len(p.content[1]) : WildcardsInRange(p.content[1][i])
    ELSE IF p.cls = "WildcardPattern"
    THEN /\ NumLeq(Value(0), p.min) /\ NumLeq(p.min, p.max)
         /\ p.content # None =>
               \A i \in 1..Len(p.content[1]) : \A j \in 1..Len(p.content[1][i]) :
                  WildcardsInRange(p.content[1][i][j])
    ELSE IF p.cls = "NegatedPattern" THEN WildcardsInRange(p.content)
    ELSE TRUE

RECURSIVE MinsNonNegative(_)
\* every WildcardPattern in p, p included, has min >= 0
MinsNonNegative(p) ==
    IF p.cls = "NodePattern"
    THEN p.content # None =>
           \A i \in 1..Len(p.content[1]) : MinsNonNegative(p.content[1][i])
    ELSE IF p.cls = "WildcardPattern"
    THEN /\ NumLeq(Value(0), p.min)
         /\ p.content # None =>
               \A i \in 1..Len(p.content[1]) : \A j \in 1..Len(p.content[1][i]) :
                  MinsNonNegative(p.content[1][i][j])
    ELSE IF p.cls = "NegatedPattern" THEN MinsNonNegative(p.content)
    ELSE TRUE

\* C1: every pattern compile_node returns has been through optimize(), and so
\* has every pattern embedded in it (WildcardPattern alternative element,
\* NodePattern content, NegatedPattern content) before it was embedded.
C1_OptimizedBeforeEmbedded ==
    (Compiled /\ ~IsRaise(result))
        => ResultPattern.optimized /\ EmbeddedOptimized(ResultPattern)

\* C2: for a Unit with a "name =" prefix and a Repeater other than (1, 1) the
\* name is on the WildcardPattern wrapper, whose one element is the optimized
\* basic pattern with the name compile_basic gave it, and the returned pattern
\* is a WildcardPattern of that name.
C2_NameOnWrapper ==
    (/\ IsUnitCall
     /\ CallName # None
     /\ CallRepeat # NoNode
     /\ SpelledIntegers(CallRepeat)
     /\ ~SpelledOneOne(CallRepeat)
     /\ ~IsRaise(pattern))
        => /\ pattern.cls = "WildcardPattern"
           /\ pattern.name = CallName
           /\ pattern.content # None
           /\ Len(pattern.content[1]) = 1 /\ Len(pattern.content[1][1]) = 1
           /\ SameNode(pattern.content[1][1][1], optimize(CallBasic))
           /\ (CallBasic.cls \in {"LeafPattern", "NodePattern"}
                 /\ BasicNodes(call.node)[1].type \in {"NAME", "STRING"}
                 => pattern.content[1][1][1].name = None)
           /\ (~IsRaise(result)
                 => result.cls = "WildcardPattern" /\ result.name = CallName)

C2_Witness ==
    /\ IsUnitCall
    /\ CallName = Some(txy)
    /\ BasicNodes(call.node) = <<tok("NAME", txNUMBER)>>
    /\ CallRepeat = Star
    /\ result.cls = "WildcardPattern"
    /\ result.name = Some(txy)
    /\ result.content[1][1][1].cls = "LeafPattern"
    /\ result.content[1][1][1].name = None

\* C3: for a Unit with a Repeater whose NUMBER texts int() converts, whose
\* basic pattern compiles and whose (min, max) is not (1, 1), the wrapper is
\* a WildcardPattern with min and max as the Repeater spells them: (0, HUGE)
\* for *, (1, HUGE) for +, (n, n) for {n}, (n, m) for {n,m}, not reordered
\* and not clamped, also when n > m; and no error is raised.
C3_BoundsAsSpelled ==
    (/\ IsUnitCall
     /\ CallRepeat # NoNode
     /\ SpelledIntegers(CallRepeat)
     /\ ~SpelledOneOne(CallRepeat)
     /\ ~IsRaise(CallBasic))
        => /\ pattern.cls = "WildcardPattern"
           /\ NumEq(pattern.min, Spelled(CallRepeat).min)
           /\ NumEq(pattern.max, Spelled(CallRepeat).max)
           /\ ~IsRaise(result)

C3_Witness ==
    /\ IsUnitCall
    /\ call.node = MkUnit(None, <<tok("NAME", txNAME)>>, Brace2(<<"5">>, <<"2">>))
    /\ pattern.cls = "WildcardPattern"
    /\ pattern.min = Value(5) /\ pattern.max = Value(2)
    /\ result.cls = "WildcardPattern"
    /\ result.min = Value(5) /\ result.max = Value(2)

\* C4 as stated: every WildcardPattern the compiler has built satisfies
\* max >= min >= 0, HUGE being above every integer.
C4_WildcardRange ==
    /\ (pc = "done" /\ result.cls \notin {"Raise", "Value", "Big", "NoPattern"})
          => WildcardsInRange(ResultPattern)
    /\ (pc = "done" /\ pattern.cls \notin {"Raise", "NoPattern"})
          => WildcardsInRange(pattern)

\* C4 amended: every WildcardPattern the compiler has built satisfies
\* min >= 0, and max >= min unless the compiled tree holds a {n,m} Repeater
\* with n > m.
C4_RangeUnlessReversed ==
    /\ (pc = "done" /\ result.cls \notin {"Raise", "Value", "Big", "NoPattern"})
          => /\ MinsNonNegative(ResultPattern)
             /\ RepeatersOrdered(call.node) => WildcardsInRange(ResultPattern)
    /\ (pc = "done" /\ pattern.cls \notin {"Raise", "NoPattern"})
          => /\ MinsNonNegative(pattern)
             /\ RepeatersOrdered(call.node) => WildcardsInRange(pattern)

C4_Witness ==
    /\ Done("compile_pattern")
    /\ call.node = MkMatcher(Single(MkUnit(None,
                       Group(Single(MkUnit(None, <<tok("NAME", txNAME)>>,
                                           Brace2(<<"0">>, <<"2">>)))),
                       Star)))
    /\ ResultPattern.cls = "WildcardPattern"
    /\ ResultPattern.min = Value(0) /\ ResultPattern.max = HUGE
    /\ ResultPattern.content[1][1][1].cls = "LeafPattern"

\* the NAME token at the head of the basic pattern of Unit or NegatedUnit n
\* is one compile_basic rejects
BadHead(n) ==
    LET b == BasicNodes(n)
        h == b[1]
    IN  /\ h.type = "NAME"
        /\ IF isupper(h.value)
           THEN h.value \notin DOMAIN token_map \/ Len(b) >= 2
           ELSE /\ h.value # txany
                /\ ~startswith_underscore(h.value)
                /\ h.value \notin DOMAIN pygram_symbols

HasBadHead(t) ==
    \E n \in Nodes(t) : n.type \in {"Unit", "NegatedUnit"} /\ BadHead(n)

\* C5: compile_node raises PatternSyntaxError if and only if the tree holds,
\* at any depth, a NAME head that is an unknown uppercase token, a known
\* token with Details, or an unknown symbol; and then no pattern is returned.
C5_SyntaxErrorIff ==
    (Compiled /\ call.node # NoNode)
        => ((IsRaise(result) /\ result.exc = "PatternSyntaxError")
              <=> HasBadHead(call.node))

\* C6: compiling Matcher(Alternatives(Alternative(u))) returns exactly what
\* compile_node(u) returns.
C6_SingleCollapse ==
    (/\ Compiled
     /\ call.node.type = "Matcher"
     /\ Len(call.node.children[1].children) = 1
     /\ Len(call.node.children[1].children[1].children) = 1
     /\ call.node.children[1].children[1].children[1].type = "Unit")
        => SameNode(ResultPattern,
                    compile_node(call.node.children[1].children[1].children[1]))

C6_Witness ==
    /\ Done("compile_pattern")
    /\ call.node = MkMatcher(Single(MkUnit(Some(txx), <<tok("NAME", txNAME)>>, NoNode)))
    /\ ResultPattern.cls = "LeafPattern"
    /\ ResultPattern.name = Some(txx)

\* the Unit without its Repeater
WithoutRepeat(n) ==
    nt("Unit", SubSeq(n.children, 1, Len(n.children) - 1))

\* C7: a Unit whose Repeater is {1} or {1,1} compiles to the same pattern,
\* class and fields, as the Unit without the Repeater.
C7_RepeatIdentity ==
    (/\ IsUnitCall
     /\ CallRepeat # NoNode
     /\ CallRepeat.children[1].type = "LBRACE"
     /\ SpelledOneOne(CallRepeat))
        => SameNode(result, compile_node(WithoutRepeat(call.node)))

C7_Witness ==
    /\ IsUnitCall
    /\ call.node = MkUnit(Some(txx), <<tok("NAME", txNAME)>>, Brace2(<<"1">>, <<"1">>))
    /\ result.cls = "LeafPattern"
    /\ result.name = Some(txx)

\* C8: compile_basic on a NAME whose text starts with "_" returns a
\* NodePattern of type None and raises nothing (the Details, if any,
\* compiling without error).
C8_ReservedName ==
    (/\ Done("compile_basic")
     /\ call.nodes[1].type = "NAME"
     /\ ~isupper(call.nodes[1].value)
     /\ startswith_underscore(call.nodes[1].value)
     /\ (Len(call.nodes) >= 2
           => ~IsRaise(compile_node(call.nodes[2].children[2]))))
        => result.cls = "NodePattern" /\ result.type = "None"

\* the WildcardPattern object with the given alternatives and min = max = 1
Wildcard11(content) ==
    [cls |-> "WildcardPattern", type |-> "None", content |-> Some(content),
     min |-> Value(1), max |-> Value(1), name |-> None, optimized |-> FALSE]

\* C9: Alternatives with n >= 2 alternatives returns optimize() of a
\* WildcardPattern(min=1, max=1) with n one-element alternatives, the compiled
\* even-position children in order; Alternative with k >= 2 units returns
\* optimize() of a WildcardPattern(min=1, max=1) with the one alternative of
\* the k compiled units in order.
C9_ChoiceAndSequence ==
    /\ (/\ Done("compile_node")
        /\ call.node.type = "Alternatives"
        /\ Len(call.node.children) >= 3
        /\ \A i \in 1..Len(call.node.children) :
              i % 2 = 1 => ~IsRaise(compile_node(call.node.children[i])))
          => LET n == (Len(call.node.children) + 1) \div 2
             IN  SameNode(result,
                          optimize(Wildcard11(
                            [i \in 1..n |->
                               <<compile_node(call.node.children[2 * i - 1])>>])))
    /\ (/\ Done("compile_node")
        /\ call.node.type = "Alternative"
        /\ Len(call.node.children) >= 2
        /\ \A i \in 1..Len(call.node.children) :
              ~IsRaise(compile_node(call.node.children[i])))
          => SameNode(result,
                      optimize(Wildcard11(
                        <<[i \in 1..Len(call.node.children) |->
                             compile_node(call.node.children[i])]>>)))

C9_Witness ==
    /\ Done("compile_node")
    /\ call.node.type = "Alternatives"
    /\ Len(call.node.children) = 3
    /\ call.node.children[3].type = "Alternative"
    /\ Len(call.node.children[3].children) = 2
    /\ result.cls = "WildcardPattern"
    /\ IsOne(result.min) /\ IsOne(result.max)
    /\ Len(result.content[1]) = 2
    /\ Len(result.content[1][1]) = 1 /\ Len(result.content[1][2]) = 1
    /\ result.content[1][1][1].cls = "LeafPattern"
    /\ result.content[1][2][1].cls = "WildcardPattern"
    /\ IsOne(result.content[1][2][1].min) /\ IsOne(result.content[1][2][1].max)
    /\ Len(result.content[1][2][1].content[1]) = 1
    /\ Len(result.content[1][2][1].content[1][1]) = 2
    /\ result.content[1][2][1].content[1][1][1].cls = "LeafPattern"
    /\ result.content[1][2][1].content[1][1][2].cls = "WildcardPattern"

\* C10: for a named Unit with no Repeater, or a Repeater of (1, 1), the name
\* is assigned on the very pattern compile_basic returned, replacing a name
\* that pattern had, and the result carries the outer name only.
C10_NameOverwritesInner ==
    (/\ IsUnitCall
     /\ CallName # None
     /\ (CallRepeat = NoNode \/ SpelledOneOne(CallRepeat))
     /\ ~IsRaise(CallBasic))
        => /\ SameNode(pattern, [CallBasic EXCEPT !.name = CallName])
           /\ (~IsRaise(result) => result.name = CallName)

C10_Witness ==
    /\ IsUnitCall
    /\ CallName = Some(txx)
    /\ CallRepeat = NoNode
    /\ call.node.children[3].value = <<"(">>
    /\ CallBasic.cls = "LeafPattern"
    /\ CallBasic.name = Some(txy)
    /\ result.cls = "LeafPattern"
    /\ result.name = Some(txx)

====
